---- MODULE Spec2Model ----
(***************************************************************************)
(* Position/portfolio ledger and trade orchestration of the simulated      *)
(* stock-trading platform: models.py (User, Portfolio), database.py        *)
(* (one auto-committed statement per Database.execute_query call),         *)
(* components/trading.py (the Streamlit order form) and api.py (POST       *)
(* /api/trade).                                                            *)
(*                                                                         *)
(* Money.  Python computes in doubles and the store keeps DECIMAL(n,2)     *)
(* columns.  A quoted price is an integer number of mills (1/1000 dollar), *)
(* so that quotes with more than two decimals exist; a stored amount       *)
(* (users.balance, portfolio.average_price, transactions.price) is an      *)
(* integer number of cents.  Double arithmetic is taken as exact rational  *)
(* arithmetic; writing to a DECIMAL(n,2) column rounds half away from      *)
(* zero to the cent.                                                       *)
(*                                                                         *)
(* Sentiment.  utils/sentiment_analyzer.py (SentimentAnalyzer).  A score   *)
(* is a double; it is modelled as the exact fraction <<numerator,          *)
(* denominator>> in lowest terms, so that a mean, a weighted sum and a     *)
(* clamp are computed and compared as the numbers they are.  The           *)
(* st.cache_data wrappers return what the wrapped function returned for    *)
(* the same arguments and are left out.                                    *)
(***************************************************************************)
EXTENDS Integers, Sequences, FiniteSets, Bags, TLC

VARIABLES
    balance,        \* users.balance, cents, per user id
    portfolio,      \* rows of table portfolio, in heap order
    transactions,   \* rows of table transactions, in insertion order
    pc,             \* per session: the statement it executes next
    req,            \* per session: the arguments of the running call
    loc,            \* per session: the local variables of the running call
    result,         \* per session: outcome of the call that ended last
    pre,            \* per session: the store when the running call started
    wrote,          \* per session: the store writes the running call committed
    calls,          \* number of calls started so far
    sent,           \* the running get_composite_sentiment call
    watchlist,      \* rows of table watchlist, in insertion order
    users,          \* table users (id, username, password_hash, balance) and its id sequence
    last,           \* the handler that ran last: its arguments, its answer, the state before
    cache,          \* the st.cache_data entries and the clock
    dbpool          \* Database._connection_pool, the connections and the threads using them

vars == <<balance, portfolio, transactions, pc, req, loc, result, pre, wrote, calls,
          sent, watchlist, users, last, cache, dbpool>>

\* the state outside the trade ledger and the sentiment engine
AuxVars == <<watchlist, users, last, cache, dbpool>>

----------------------------------------------------------------------------
(* Bounds and input sets *)

\* calls started in a run of one-at-a-time calls, and in a run of overlapping calls
MaxCalls == 3
MaxConcCalls == 2

Users == {"u1", "u2"}
Symbols == {"XYZ", "ABC"}
Procs == {"p1", "p2"}
Types == {"BUY", "SELL"}
Quantities == {1, 2}
\* quotes in mills: $0.01, $0.02, $0.025 and $60000.00
Prices == {10, 20, 25, 60000000}

None == [none |-> TRUE]
NoReq == [none |-> TRUE]

DefaultBalance == 10000000

Requests ==
    [user_id : {"u1"}, symbol : {"XYZ"}, quantity : Quantities,
     price : Prices, transaction_type : Types]

\* trades of both users in both symbols
FrameRequests ==
    [user_id : Users, symbol : Symbols, quantity : {1}, price : {20},
     transaction_type : Types]

\* the inputs of the runs with overlapping calls
ConcRequests == {r \in Requests : r.price \in {10, 60000000}}

----------------------------------------------------------------------------
(* Arithmetic *)

Abs(x) == IF x < 0 THEN -x ELSE x

\* a non-negative amount of mills written to a DECIMAL(n,2) column, in cents
RoundCents(mills) == (mills + 5) \div 10

\* num/den rounded half up to an integer, num >= 0, den > 0
RoundDiv(num, den) == (2 * num + den) \div (2 * den)

TotalCost(current_price, quantity) == current_price * quantity

\* the funds check left out
NoFundsCheck(total_cost, bal) == FALSE

InsufficientFunds(total_cost, bal) == total_cost > bal * 10

\* a statement that sets the balance of every user
UpdateEveryBalance(balances, user_id, new_balance) ==
    [u \in DOMAIN balances |-> new_balance]

\* UPDATE users SET balance = %s WHERE id = %s
UpdateBalanceOf(balances, user_id, new_balance) ==
    [balances EXCEPT ![user_id] = new_balance]

\* a SELL that debits the proceeds instead of crediting them
SellDebits(bal, total_cost, action) == RoundCents(bal * 10 - total_cost)

NewBalance(bal, total_cost, action) ==
    IF action = "BUY" THEN RoundCents(bal * 10 - total_cost)
    ELSE RoundCents(bal * 10 + total_cost)

----------------------------------------------------------------------------
(* Table portfolio *)

Matching(rows, user_id, symbol) ==
    {i \in 1..Len(rows) : rows[i].user_id = user_id /\ rows[i].symbol = symbol}

Holdings(rows, user_id) ==
    {i \in 1..Len(rows) : rows[i].user_id = user_id}

InsufficientShares(current_position, quantity) ==
    current_position = None \/ current_position.quantity < quantity

NewQty(current_qty, quantity, transaction_type) ==
    IF transaction_type = "BUY" THEN current_qty + quantity
    ELSE current_qty - quantity

\* a SELL that re-prices the remaining shares at the sell price
SellReprices(current_qty, current_avg_price, quantity, price, transaction_type) ==
    IF transaction_type = "BUY"
    THEN RoundDiv(current_qty * current_avg_price * 10 + quantity * price,
                  10 * (current_qty + quantity))
    ELSE IF current_qty - quantity > 0 THEN RoundCents(price) ELSE 0

\* the value written to portfolio.average_price, in cents.  current_avg_price is
\* float(existing[0]['average_price']): a DECIMAL(10,2) value has at most 10
\* significant digits, which a double and its repr carry unchanged, so the
\* value read is the value stored and a SELL writes it back as it is.
NewAvgPrice(current_qty, current_avg_price, quantity, price, transaction_type) ==
    LET new_qty == NewQty(current_qty, quantity, transaction_type)
    IN  IF transaction_type = "BUY"
        THEN RoundDiv(current_qty * current_avg_price * 10 + quantity * price,
                      10 * new_qty)
        ELSE IF new_qty > 0 THEN current_avg_price ELSE 0

\* the row kept when the quantity reaches zero
KeepsRowAtZero(new_qty) == new_qty >= 0

KeepsRow(new_qty) == new_qty > 0

RECURSIVE UpdateRows(_, _, _, _, _)
UpdateRows(rows, user_id, symbol, new_qty, new_avg_price) ==
    IF rows = <<>> THEN <<>>
    ELSE LET h == Head(rows)
             h2 == IF h.user_id = user_id /\ h.symbol = symbol
                   THEN [h EXCEPT !.quantity = new_qty,
                                  !.average_price = new_avg_price]
                   ELSE h
         IN  <<h2>> \o UpdateRows(Tail(rows), user_id, symbol, new_qty, new_avg_price)

RECURSIVE DeleteRows(_, _, _)
DeleteRows(rows, user_id, symbol) ==
    IF rows = <<>> THEN <<>>
    ELSE LET h == Head(rows)
             rest == DeleteRows(Tail(rows), user_id, symbol)
         IN  IF h.user_id = user_id /\ h.symbol = symbol THEN rest
             ELSE <<h>> \o rest

InsertRow(rows, user_id, symbol, quantity, price) ==
    Append(rows, [user_id |-> user_id, symbol |-> symbol, quantity |-> quantity,
                  average_price |-> RoundCents(price)])

\* lines 64-93 of update_position, given the row the SELECT returned first
WritePortfolio(rows, existing, r) ==
    IF existing # None
    THEN LET new_qty == NewQty(existing.quantity, r.quantity, r.transaction_type)
             new_avg_price == NewAvgPrice(existing.quantity, existing.average_price,
                                          r.quantity, r.price, r.transaction_type)
         IN  IF KeepsRow(new_qty)
             THEN UpdateRows(rows, r.user_id, r.symbol, new_qty, new_avg_price)
             ELSE DeleteRows(rows, r.user_id, r.symbol)
    ELSE IF r.transaction_type = "BUY"
         THEN InsertRow(rows, r.user_id, r.symbol, r.quantity, r.price)
         ELSE rows

TransactionRow(r) ==
    [user_id |-> r.user_id, symbol |-> r.symbol, quantity |-> r.quantity,
     price |-> RoundCents(r.price), transaction_type |-> r.transaction_type]

\* one order-form call run alone on the store: balance read, check, balance
\* write, update_position
SerialTrade(store, r) ==
    LET bal == store.balance[r.user_id]
        total_cost == TotalCost(r.price, r.quantity)
        m == Matching(store.portfolio, r.user_id, r.symbol)
        position == IF m = {} THEN None
                    ELSE store.portfolio[CHOOSE i \in m : \A j \in m : i <= j]
    IN  IF r.transaction_type = "BUY" /\ InsufficientFunds(total_cost, bal)
        THEN store
        ELSE IF r.transaction_type = "SELL" /\ InsufficientShares(position, r.quantity)
        THEN store
        ELSE [balance |-> [store.balance EXCEPT ![r.user_id] =
                              NewBalance(bal, total_cost, r.transaction_type)],
              portfolio |-> WritePortfolio(store.portfolio, position, r),
              transactions |-> Append(store.transactions, TransactionRow(r))]

----------------------------------------------------------------------------
(* Scores of SentimentAnalyzer, utils/sentiment_analyzer.py *)

\* articles company_news may return
MaxNews == 11

RECURSIVE GCD(_, _)
GCD(a, b) == IF b = 0 THEN a ELSE GCD(b, a % b)

\* the fraction n/d, d > 0, in lowest terms
Frac(n, d) == LET g == GCD(Abs(n), d) IN <<n \div g, d \div g>>

Zero == Frac(0, 1)
One == Frac(1, 1)

FracAdd(a, b) == Frac(a[1] * b[2] + b[1] * a[2], a[2] * b[2])
FracMul(a, b) == Frac(a[1] * b[1], a[2] * b[2])
FracNeg(a) == <<-a[1], a[2]>>
FracLe(a, b) == a[1] * b[2] <= b[1] * a[2]
FracMin(a, b) == IF FracLe(a, b) THEN a ELSE b
FracMax(a, b) == IF FracLe(a, b) THEN b ELSE a

\* a provider call raises; it returns nothing
Raise == [raise |-> TRUE]
Empty == [empty |-> TRUE]
NoContent == [no_content |-> TRUE]

\* TextBlob(content).sentiment.polarity of an article: -1, 1/4 and 1
Polarities == {Frac(-1, 1), Frac(1, 4), Frac(1, 1)}

\* what reading one article gives: fetch_url or extract raises, extract returns
\* nothing, or the text is scored
ArticleOutcomes == {Raise, NoContent} \cup {[polarity |-> x] : x \in Polarities}

\* news[:10] of a list of news_count articles: how many the loop reads
AllArticles(news_count) == news_count

ArticlesExamined(news_count) == IF news_count < 10 THEN news_count ELSE 10

\* sum(sentiments), sentiments being the bag of the polarities appended
RECURSIVE BagSum(_)
BagSum(sentiments) ==
    IF DOMAIN sentiments = {} THEN Zero
    ELSE LET x == CHOOSE x \in DOMAIN sentiments : TRUE
         IN  FracAdd(FracMul(x, Frac(sentiments[x], 1)),
                     BagSum([y \in DOMAIN sentiments \ {x} |-> sentiments[y]]))

\* lines 41-45 of get_news_sentiment
NewsSentiment(sentiments) ==
    IF BagCardinality(sentiments) > 0
    THEN [sentiment |-> FracMul(BagSum(sentiments),
                                Frac(1, BagCardinality(sentiments))),
          confidence |-> Frac(BagCardinality(sentiments), 10)]
    ELSE [sentiment |-> Zero, confidence |-> Zero]

\* the largest count of one bucket of a recommendation snapshot
MaxCount == 1

Counts == 0..MaxCount

Snapshots ==
    [strongBuy : Counts, buy : Counts, hold : Counts, sell : Counts,
     strongSell : Counts]

\* what recommendation_trends gives: it raises, an empty list, or a list whose
\* first element is the snapshot
AnalystOutcomes == {Raise, Empty} \cup Snapshots

Total(latest) ==
    latest.buy + latest.hold + latest.sell + latest.strongBuy + latest.strongSell

\* a buy counted as a strong buy
AnalystScoreBuyWhole(latest) ==
    Frac(2 * latest.strongBuy + 2 * latest.buy - latest.sell - 2 * latest.strongSell,
         2 * Total(latest))

\* lines 59-65, Total(latest) > 0
AnalystScore(latest) ==
    Frac(2 * latest.strongBuy + latest.buy - latest.sell - 2 * latest.strongSell,
         2 * Total(latest))

\* the handler of get_analyst_ratings returning the data it had fetched
AnalystRatingsKeepData(outcome) ==
    IF outcome \in {Raise, Empty}
    THEN [sentiment |-> Zero,
          data |-> [strongBuy |-> 0, buy |-> 0, hold |-> 0, sell |-> 0,
                    strongSell |-> 0]]
    ELSE IF Total(outcome) > 0
    THEN [sentiment |-> AnalystScore(outcome), data |-> outcome]
    ELSE [sentiment |-> Zero, data |-> None]

\* get_analyst_ratings
AnalystRatings(outcome) ==
    IF outcome \in {Raise, Empty} THEN [sentiment |-> Zero, data |-> None]
    ELSE IF Total(outcome) > 0
    THEN [sentiment |-> AnalystScore(outcome), data |-> outcome]
    ELSE [sentiment |-> Zero, data |-> None]

\* first and last Close of the 5-day ^VIX series
VixSeries == [first : {20}, last : {10, 15, 30, 50, 60}]

\* what yf.download gives: it raises, an empty frame, or the series
FearOutcomes == {Raise, Empty} \cup VixSeries

\* the clamp left out
FearUnclamped(current_vix) == FracNeg(Frac(current_vix - 15, 35))

\* the neutral level taken as 20
FearNeutralAt20(current_vix) ==
    FracNeg(FracMin(FracMax(Frac(current_vix - 20, 35), FracNeg(One)), One))

\* line 82: -min(max((current_vix - 15) / 35, -1), 1)
FearScore(current_vix) ==
    FracNeg(FracMin(FracMax(Frac(current_vix - 15, 35), FracNeg(One)), One))

\* get_market_fear_index
MarketFearIndex(outcome) ==
    IF outcome \in {Raise, Empty}
    THEN [sentiment |-> Zero, vix |-> 0, vix_change |-> Zero]
    ELSE [sentiment |-> FearScore(outcome.last),
          vix |-> outcome.last,
          vix_change |-> Frac(100 * (outcome.last - outcome.first), outcome.first)]

\* the three scores weighted alike
EqualWeights(news_sentiment, analyst_sentiment, fear_sentiment) ==
    FracMul(FracAdd(FracAdd(news_sentiment, analyst_sentiment), fear_sentiment),
            Frac(1, 3))

\* lines 97-107: weights news 0.3, analyst 0.4, fear 0.3
CompositeScore(news_sentiment, analyst_sentiment, fear_sentiment) ==
    FracAdd(FracAdd(FracMul(news_sentiment, Frac(3, 10)),
                    FracMul(analyst_sentiment, Frac(4, 10))),
            FracMul(fear_sentiment, Frac(3, 10)))

Sources == {"news", "analyst", "fear"}

\* no get_composite_sentiment call is running
NoSentiment ==
    [pc |-> "idle", news_count |-> 0, i |-> 0, sentiments |-> EmptyBag,
     news_sentiment |-> Zero, news_confidence |-> Zero,
     analyst_sentiment |-> Zero, analyst_data |-> None,
     fear_sentiment |-> Zero, vix_value |-> 0, vix_change |-> Zero,
     analyst_outcome |-> None, fear_outcome |-> None, failed |-> {}, result |-> None]

----------------------------------------------------------------------------
(* Initial values of the state outside the ledger *)

\* no handler has run
NoCall == [op |-> "none"]

\* table users as create_tables leaves it: no row, the SERIAL id at its start
NoUsers == [rows |-> <<>>, nextval |-> 1]

\* the functions under @st.cache_data and the ttl, in seconds, each is given
CachedFunctions ==
    {"get_stock_data", "get_stock_info", "get_news_sentiment", "get_analyst_ratings",
     "get_market_fear_index"}

Ttl(fn) ==
    CASE fn = "get_stock_data" -> 60
      [] fn = "get_stock_info" -> 3600
      [] fn = "get_news_sentiment" -> 300
      [] fn = "get_analyst_ratings" -> 300
      [] fn = "get_market_fear_index" -> 60

\* an entry is kept per function and arguments; get_market_fear_index has no
\* symbol among its arguments
NoArgs == "-"

CacheKey(fn, symbol) ==
    [fn |-> fn, args |-> IF fn = "get_market_fear_index" THEN NoArgs ELSE symbol]

CacheKeys == {CacheKey(fn, symbol) : fn \in CachedFunctions, symbol \in Symbols}

\* nothing cached, the clock at 0, no read made and no call of a provider
NoCache == [now |-> 0, reads |-> 0, fetches |-> 0, entries |-> [k \in CacheKeys |-> None]]

\* Database._connection_pool = None
\* a thread that is not inside execute_query
NoQuery == [pc |-> "idle", conn |-> 0, fails |-> FALSE, outcome |-> "none"]

\* Database._connection_pool = None: no pool, no connection, no query made
NoPool == [pool |-> 0, made |-> 0, resets |-> 0, conns |-> <<>>, queries |-> 0,
           threads |-> [t \in Procs |-> NoQuery]]

----------------------------------------------------------------------------
(* State *)

Store == [balance |-> balance, portfolio |-> portfolio, transactions |-> transactions]

\* queries counts the Database.execute_query calls the running call has made
NoLocals ==
    [balance |-> 0, existing |-> None, caller |-> "none", info |-> FALSE, queries |-> 0]

Init ==
    /\ balance = [u \in Users |-> DefaultBalance]
    /\ portfolio = <<>>
    /\ transactions = <<>>
    /\ pc = [p \in Procs |-> "idle"]
    /\ req = [p \in Procs |-> NoReq]
    /\ loc = [p \in Procs |-> NoLocals]
    /\ result = [p \in Procs |-> "none"]
    /\ pre = [p \in Procs |-> None]
    /\ wrote = [p \in Procs |-> {}]
    /\ calls = 0
    /\ sent = NoSentiment
    /\ watchlist = <<>>
    /\ users = NoUsers
    /\ last = NoCall
    /\ cache = NoCache
    /\ dbpool = NoPool

AllIdle == \A p \in Procs : pc[p] = "idle"

----------------------------------------------------------------------------
(* The Streamlit order form, components/trading.py lines 78-105.  Every    *)
(* Database.execute_query call is one committed statement, so every call   *)
(* is one step and other sessions' statements may run between two steps.   *)

\* "Place Order" with the confirmation ticked: balance = User.get_balance(user_id),
\* then for a BUY the funds check
SubmitOrder(p, r) ==
    /\ pc[p] = "idle"
    /\ calls' = calls + 1
    /\ req' = [req EXCEPT ![p] = r]
    /\ pre' = [pre EXCEPT ![p] = Store]
    /\ wrote' = [wrote EXCEPT ![p] = {}]
    /\ loc' = [loc EXCEPT ![p] = [balance |-> balance[r.user_id], existing |-> None,
                                  caller |-> "form", info |-> TRUE, queries |-> 1]]
    /\ IF r.transaction_type = "BUY"
       THEN IF InsufficientFunds(TotalCost(r.price, r.quantity), balance[r.user_id])
            THEN /\ pc' = [pc EXCEPT ![p] = "done"]
                 /\ result' = [result EXCEPT ![p] = "InsufficientFunds"]
            ELSE /\ pc' = [pc EXCEPT ![p] = "update_balance"]
                 /\ result' = [result EXCEPT ![p] = "none"]
       ELSE /\ pc' = [pc EXCEPT ![p] = "get_holdings"]
            /\ result' = [result EXCEPT ![p] = "none"]
    /\ UNCHANGED <<balance, portfolio, transactions, sent, AuxVars>>

\* SELL: holdings = Portfolio.get_holdings(user_id); the first row of the symbol
\* in the order the store returns them; the shares check
GetHoldings(p) ==
    /\ pc[p] = "get_holdings"
    /\ LET r == req[p]
           m == Matching(portfolio, r.user_id, r.symbol)
       IN  \E current_position \in
                 (IF m = {} THEN {None} ELSE {portfolio[i] : i \in m}) :
              IF InsufficientShares(current_position, r.quantity)
              THEN /\ pc' = [pc EXCEPT ![p] = "done"]
                   /\ result' = [result EXCEPT ![p] = "InsufficientShares"]
              ELSE /\ pc' = [pc EXCEPT ![p] = "update_balance"]
                   /\ UNCHANGED result
    /\ loc' = [loc EXCEPT ![p].queries = @ + 1]
    /\ UNCHANGED <<balance, portfolio, transactions, req, pre, wrote, calls, sent, AuxVars>>

\* User.update_balance(user_id, balance -/+ total_cost)
UpdateBalance(p) ==
    /\ pc[p] = "update_balance"
    /\ LET r == req[p]
       IN  balance' = UpdateBalanceOf(balance, r.user_id,
                          NewBalance(loc[p].balance, TotalCost(r.price, r.quantity),
                                     r.transaction_type))
    /\ wrote' = [wrote EXCEPT ![p] = @ \cup {"balance"}]
    /\ pc' = [pc EXCEPT ![p] = "insert_transaction"]
    /\ loc' = [loc EXCEPT ![p].queries = @ + 1]
    /\ UNCHANGED <<portfolio, transactions, req, result, pre, calls, sent, AuxVars>>

----------------------------------------------------------------------------
(* Portfolio.update_position, models.py lines 48-93 *)

\* a caller other than the order form calls update_position
ApplyTransaction(p, r) ==
    /\ pc[p] = "idle"
    /\ calls' = calls + 1
    /\ req' = [req EXCEPT ![p] = r]
    /\ pre' = [pre EXCEPT ![p] = Store]
    /\ wrote' = [wrote EXCEPT ![p] = {}]
    /\ loc' = [loc EXCEPT ![p] = [balance |-> 0, existing |-> None, caller |-> "direct",
                                  info |-> TRUE, queries |-> 0]]
    /\ pc' = [pc EXCEPT ![p] = "insert_transaction"]
    /\ result' = [result EXCEPT ![p] = "none"]
    /\ UNCHANGED <<balance, portfolio, transactions, sent, AuxVars>>

\* INSERT INTO transactions
InsertTransaction(p) ==
    /\ pc[p] = "insert_transaction"
    /\ transactions' = Append(transactions, TransactionRow(req[p]))
    /\ wrote' = [wrote EXCEPT ![p] = @ \cup {"transaction"}]
    /\ pc' = [pc EXCEPT ![p] = "select_existing"]
    /\ loc' = [loc EXCEPT ![p].queries = @ + 1]
    /\ UNCHANGED <<balance, portfolio, req, result, pre, calls, sent, AuxVars>>

\* SELECT quantity, average_price FROM portfolio WHERE user_id, symbol; existing[0]
\* is the row the store happens to return first
SelectExisting(p) ==
    /\ pc[p] = "select_existing"
    /\ LET r == req[p]
           m == Matching(portfolio, r.user_id, r.symbol)
       IN  \E existing \in (IF m = {} THEN {None} ELSE {portfolio[i] : i \in m}) :
              loc' = [loc EXCEPT ![p].existing = existing, ![p].queries = @ + 1]
    /\ pc' = [pc EXCEPT ![p] = "write_position"]
    /\ UNCHANGED <<balance, portfolio, transactions, req, result, pre, wrote, calls, sent, AuxVars>>

\* UPDATE, DELETE or INSERT on portfolio, or nothing at all
WritePosition(p) ==
    /\ pc[p] = "write_position"
    /\ portfolio' = WritePortfolio(portfolio, loc[p].existing, req[p])
    /\ wrote' = [wrote EXCEPT ![p] =
                    IF loc[p].existing # None \/ req[p].transaction_type = "BUY"
                    THEN @ \cup {"position"} ELSE @]
    /\ pc' = [pc EXCEPT ![p] = "done"]
    /\ result' = [result EXCEPT ![p] = "ok"]
    /\ loc' = [loc EXCEPT ![p].queries =
                  IF loc[p].existing # None \/ req[p].transaction_type = "BUY"
                  THEN @ + 1 ELSE @]
    /\ UNCHANGED <<balance, transactions, req, pre, calls, sent, AuxVars>>

\* the caller has seen the outcome; the session is free for the next call
Return(p) ==
    /\ pc[p] = "done"
    /\ pc' = [pc EXCEPT ![p] = "idle"]
    /\ req' = [req EXCEPT ![p] = NoReq]
    /\ loc' = [loc EXCEPT ![p] = NoLocals]
    /\ result' = [result EXCEPT ![p] = "none"]
    /\ pre' = [pre EXCEPT ![p] = None]
    /\ wrote' = [wrote EXCEPT ![p] = {}]
    /\ UNCHANGED <<balance, portfolio, transactions, calls, sent, AuxVars>>

\* a statement raises in Database.execute_query (rolled back, re-raised) or the
\* process dies: the call ends at that point and what it committed stays
Fail(p) ==
    /\ pc[p] \in {"get_holdings", "update_balance", "insert_transaction",
                  "select_existing", "write_position"}
    /\ pc' = [pc EXCEPT ![p] = "done"]
    /\ result' = [result EXCEPT ![p] = "PersistenceFailure"]
    /\ UNCHANGED <<balance, portfolio, transactions, req, loc, pre, wrote, calls, sent, AuxVars>>

FormSteps(p) ==
    \/ GetHoldings(p)
    \/ UpdateBalance(p)

LedgerSteps(p) ==
    \/ InsertTransaction(p)
    \/ SelectExisting(p)
    \/ WritePosition(p)
    \/ Return(p)

----------------------------------------------------------------------------
(* POST /api/trade, api.py lines 160-195 *)

\* class User (models.py lines 5-36) defines create, authenticate, get_balance
\* and update_balance, and no get_by_id
UserHasGetById == FALSE

\* the quote check left out
QuoteAlwaysThere(info) == FALSE

\* "if not info" on line 170: get_stock_info returned None
NoQuote(info) == ~info

\* info is whether get_stock_info returned a quote.  User.get_by_id(user_id) on
\* line 176 raises AttributeError, which the handler's except turns into 500
\* 'Trade failed' before any statement reaches the store.
APITrade(p, r, info) ==
    /\ pc[p] = "idle"
    /\ calls' = calls + 1
    /\ req' = [req EXCEPT ![p] = r]
    /\ pre' = [pre EXCEPT ![p] = Store]
    /\ wrote' = [wrote EXCEPT ![p] = {}]
    /\ LET reads == ~NoQuote(info) /\ UserHasGetById
       IN  loc' = [loc EXCEPT ![p] = [balance |-> IF reads THEN balance[r.user_id] ELSE 0,
                                      existing |-> None, caller |-> "api", info |-> info,
                                      queries |-> IF reads THEN 1 ELSE 0]]
    /\ IF NoQuote(info)
       THEN /\ pc' = [pc EXCEPT ![p] = "done"]
            /\ result' = [result EXCEPT ![p] = "InvalidSymbol"]
       ELSE IF ~UserHasGetById
       THEN /\ pc' = [pc EXCEPT ![p] = "done"]
            /\ result' = [result EXCEPT ![p] = "TradeFailed"]
       ELSE IF r.transaction_type = "BUY"
       THEN IF InsufficientFunds(TotalCost(r.price, r.quantity), balance[r.user_id])
            THEN /\ pc' = [pc EXCEPT ![p] = "done"]
                 /\ result' = [result EXCEPT ![p] = "InsufficientFunds"]
            ELSE /\ pc' = [pc EXCEPT ![p] = "update_balance"]
                 /\ result' = [result EXCEPT ![p] = "none"]
       ELSE /\ pc' = [pc EXCEPT ![p] = "get_holdings"]
            /\ result' = [result EXCEPT ![p] = "none"]
    /\ UNCHANGED <<balance, portfolio, transactions, sent, AuxVars>>

----------------------------------------------------------------------------
(* SentimentAnalyzer.get_composite_sentiment, utils/sentiment_analyzer.py  *)
(* lines 89-118, and the three sources it calls in turn.  failed is the    *)
(* set of sources whose provider call raised; analyst_outcome and          *)
(* fear_outcome are what the providers answered.                           *)

TradeVars == <<balance, portfolio, transactions, pc, req, loc, result, pre, wrote, calls>>

GetCompositeSentiment ==
    /\ sent.pc = "idle"
    /\ sent' = [NoSentiment EXCEPT !.pc = "news"]
    /\ UNCHANGED <<TradeVars, AuxVars>>

\* get_news_sentiment up to the loop: company_news raises, or returns a list of
\* news_count articles
GetNews(raises, news_count) ==
    /\ sent.pc = "news"
    /\ sent' = IF raises
               THEN [sent EXCEPT !.pc = "analyst", !.failed = @ \cup {"news"},
                                 !.news_sentiment = Zero, !.news_confidence = Zero]
               ELSE IF news_count = 0
               THEN [sent EXCEPT !.pc = "analyst",
                                 !.news_sentiment = Zero, !.news_confidence = Zero]
               ELSE [sent EXCEPT !.pc = "articles", !.news_count = news_count]
    /\ UNCHANGED <<TradeVars, AuxVars>>

\* one round of the loop over news[:10]
AnalyzeArticle(outcome) ==
    /\ sent.pc = "articles"
    /\ sent.i < ArticlesExamined(sent.news_count)
    /\ sent' = [sent EXCEPT !.i = @ + 1,
                            !.sentiments = IF outcome \in {Raise, NoContent} THEN @
                                           ELSE @ (+) SetToBag({outcome.polarity})]
    /\ UNCHANGED <<TradeVars, AuxVars>>

\* the loop is over: lines 41-45
NewsReturn ==
    /\ sent.pc = "articles"
    /\ sent.i = ArticlesExamined(sent.news_count)
    /\ sent' = [sent EXCEPT !.pc = "analyst",
                            !.news_sentiment = NewsSentiment(sent.sentiments).sentiment,
                            !.news_confidence = NewsSentiment(sent.sentiments).confidence]
    /\ UNCHANGED <<TradeVars, AuxVars>>

\* line 93; the locals of get_news_sentiment are gone
GetAnalystRatings(outcome) ==
    /\ sent.pc = "analyst"
    /\ sent' = [sent EXCEPT !.pc = "fear",
                            !.news_count = 0, !.i = 0, !.sentiments = EmptyBag,
                            !.analyst_outcome = outcome,
                            !.failed = IF outcome = Raise THEN @ \cup {"analyst"} ELSE @,
                            !.analyst_sentiment = AnalystRatings(outcome).sentiment,
                            !.analyst_data = AnalystRatings(outcome).data]
    /\ UNCHANGED <<TradeVars, AuxVars>>

\* line 94
GetMarketFearIndex(outcome) ==
    /\ sent.pc = "fear"
    /\ sent' = [sent EXCEPT !.pc = "composite",
                            !.fear_outcome = outcome,
                            !.failed = IF outcome = Raise THEN @ \cup {"fear"} ELSE @,
                            !.fear_sentiment = MarketFearIndex(outcome).sentiment,
                            !.vix_value = MarketFearIndex(outcome).vix,
                            !.vix_change = MarketFearIndex(outcome).vix_change]
    /\ UNCHANGED <<TradeVars, AuxVars>>

\* lines 96-118: the weighted sum and the dict returned
Composite ==
    /\ sent.pc = "composite"
    /\ sent' = [sent EXCEPT
                   !.pc = "done",
                   !.result =
                       [composite |-> CompositeScore(sent.news_sentiment,
                                                     sent.analyst_sentiment,
                                                     sent.fear_sentiment),
                        news |-> sent.news_sentiment,
                        analyst |-> sent.analyst_sentiment,
                        fear |-> sent.fear_sentiment,
                        vix |-> sent.vix_value,
                        vix_change |-> sent.vix_change,
                        analyst_data |-> sent.analyst_data,
                        news_confidence |-> sent.news_confidence]]
    /\ UNCHANGED <<TradeVars, AuxVars>>

\* the caller has the dict
SentimentReturn ==
    /\ sent.pc = "done"
    /\ sent' = NoSentiment
    /\ UNCHANGED <<TradeVars, AuxVars>>

----------------------------------------------------------------------------
(* Watchlist, models.py lines 95-114, behind POST and DELETE                *)
(* /api/watchlist/<user_id> (api.py lines 138-158) and the watchlist page   *)
(* (components/watchlist.py).  Each handler makes one statement.            *)

\* symbols as typed, before .upper()
TypedSymbols == {"XYZ", "xyz", "ABC"}

\* str.upper
Upper(symbol) == IF symbol = "xyz" THEN "XYZ" ELSE symbol

OnWatchlist(rows, user_id, symbol) ==
    \E i \in 1..Len(rows) : rows[i].user_id = user_id /\ rows[i].symbol = symbol

\* an INSERT that does not look for the row
AddSymbolAgain(rows, user_id, symbol) ==
    Append(rows, [user_id |-> user_id, symbol |-> symbol])

\* INSERT ... ON CONFLICT (user_id, symbol) DO NOTHING on a table with
\* UNIQUE(user_id, symbol)
AddSymbol(rows, user_id, symbol) ==
    IF OnWatchlist(rows, user_id, symbol) THEN rows
    ELSE Append(rows, [user_id |-> user_id, symbol |-> symbol])

\* DELETE FROM watchlist WHERE user_id = %s AND symbol = %s
RemoveSymbol(rows, user_id, symbol) ==
    LET Other(row) == ~(row.user_id = user_id /\ row.symbol = symbol)
    IN  SelectSeq(rows, Other)

\* info is whether get_stock_info returned a quote
AddToWatchlist(user_id, typed, info) ==
    /\ watchlist' = IF info THEN AddSymbol(watchlist, user_id, Upper(typed))
                    ELSE watchlist
    /\ last' = [op |-> "add_to_watchlist", user_id |-> user_id,
                symbol |-> Upper(typed), info |-> info,
                answer |-> IF info THEN "added" ELSE "InvalidSymbol",
                before |-> watchlist]
    /\ UNCHANGED <<TradeVars, sent, users, cache, dbpool>>

RemoveFromWatchlist(user_id, typed) ==
    /\ watchlist' = RemoveSymbol(watchlist, user_id, Upper(typed))
    /\ last' = [op |-> "remove_from_watchlist", user_id |-> user_id,
                symbol |-> Upper(typed), info |-> TRUE, answer |-> "removed",
                before |-> watchlist]
    /\ UNCHANGED <<TradeVars, sent, users, cache, dbpool>>

----------------------------------------------------------------------------
(* Registration and login: User.create and User.authenticate (models.py     *)
(* lines 6-25) behind POST /api/auth/register and /api/auth/login (api.py   *)
(* lines 75-103) and the forms of main.py.                                  *)

\* INSERT statements on table users in one run
MaxRegistrations == 3

Usernames == {"alice", "bob"}
Passwords == {"secret1", "secret2"}

\* hashlib.sha256(password.encode()).hexdigest(): distinct passwords have
\* distinct digests
Sha256(password) == [sha256 |-> password]

\* the rows of table users a WHERE clause on username, and on the hash, selects
ByUsername(rows, username) ==
    {i \in 1..Len(rows) : rows[i].username = username}

\* a lookup by username alone
ByUsernameOnly(rows, username, password_hash) == ByUsername(rows, username)

ByCredentials(rows, username, password_hash) ==
    {i \in 1..Len(rows) :
        rows[i].username = username /\ rows[i].password_hash = password_hash}

\* Database.execute_query hands back cur.fetchall() for a statement that starts
\* with SELECT and None for every other one (database.py lines 65-67)
Fetched(statement, rows) == IF statement = "SELECT" THEN rows ELSE <<>>

\* User.create: INSERT INTO users ... RETURNING id, username, balance.  The
\* value is the row handed back, None for none
CreateReturns(row) ==
    LET fetched == Fetched("INSERT", <<row>>)
    IN  IF fetched # <<>> THEN fetched[1] ELSE None

\* register(): the INSERT commits or raises 'duplicate key value violates unique
\* constraint' on the UNIQUE username; then "if user"
Register(username, password) ==
    /\ users.nextval <= MaxRegistrations
    /\ LET taken == ByUsername(users.rows, username) # {}
           row == [id |-> users.nextval, username |-> username,
                   password_hash |-> Sha256(password), balance |-> DefaultBalance]
       IN  /\ users' = [rows |-> IF taken THEN users.rows ELSE Append(users.rows, row),
                        nextval |-> users.nextval + 1]
           /\ last' = [op |-> "register", username |-> username, password |-> password,
                       answer |-> IF taken THEN [status |-> "UsernameTaken"]
                                  ELSE IF CreateReturns(row) # None
                                  THEN [status |-> "success"]
                                  ELSE [status |-> "RegistrationFailed"],
                       before |-> users]
    /\ UNCHANGED <<TradeVars, sent, watchlist, cache, dbpool>>

\* login(): SELECT id, username, balance FROM users WHERE username = %s AND
\* password_hash = %s; the first row, or 401
Login(username, password) ==
    /\ LET m == ByCredentials(users.rows, username, Sha256(password))
           fetched == Fetched("SELECT", [i \in 1..Cardinality(m) |->
                                 users.rows[CHOOSE k \in m :
                                     Cardinality({j \in m : j < k}) = i - 1]])
       IN  last' = [op |-> "login", username |-> username, password |-> password,
                    answer |-> IF fetched # <<>>
                               THEN [status |-> "ok", id |-> fetched[1].id,
                                     username |-> fetched[1].username,
                                     balance |-> fetched[1].balance]
                               ELSE [status |-> "InvalidCredentials"],
                    before |-> users]
    /\ UNCHANGED <<TradeVars, sent, watchlist, users, cache, dbpool>>

----------------------------------------------------------------------------
(* Portfolio valuation: render_portfolio (components/portfolio.py) with     *)
(* calculate_portfolio_value (utils/__init__.py lines 43-48), and the price *)
(* line of the order form (components/trading.py lines 35-62).  Values are  *)
(* in mills.  last.at is the number of the call, so that last.at = calls    *)
(* says that no call has started since.                                     *)

\* what get_stock_data returns for a symbol: None after an exception, an empty
\* frame, or a frame whose last Close is the price, in mills
NoData == [data |-> "None"]
EmptyFrame == [data |-> "empty"]
Frames == {[data |-> "frame", close |-> x] : x \in {20, 25}}
DataOutcomes == {NoData, EmptyFrame} \cup Frames

\* get_stock_data(symbol).iloc[-1]['Close']: None has no iloc, an empty frame no
\* last row
LastClose(data) ==
    IF data = NoData THEN [error |-> "AttributeError"]
    ELSE IF data = EmptyFrame THEN [error |-> "IndexError"]
    ELSE [error |-> "none", value |-> data.close]

\* the rows of a user, in the order the store returns them
RECURSIVE HoldingsOf(_, _)
HoldingsOf(rows, user_id) ==
    IF rows = <<>> THEN <<>>
    ELSE IF Head(rows).user_id = user_id
         THEN <<Head(rows)>> \o HoldingsOf(Tail(rows), user_id)
         ELSE HoldingsOf(Tail(rows), user_id)

\* calculate_portfolio_value: the loop stops at the first holding whose price
\* lookup raises
RECURSIVE PortfolioValue(_, _)
PortfolioValue(holdings, data) ==
    IF holdings = <<>> THEN [error |-> "none", value |-> 0]
    ELSE LET current_price == LastClose(data[Head(holdings).symbol])
             rest == PortfolioValue(Tail(holdings), data)
         IN  IF current_price.error # "none" THEN current_price
             ELSE IF rest.error # "none" THEN rest
             ELSE [error |-> "none",
                   value |-> current_price.value * Head(holdings).quantity + rest.value]

\* holding['average_price'] is the decimal.Decimal that psycopg2 builds for a
\* DECIMAL column (get_holdings passes the rows on as they are) and
\* current_price a numpy.float64: float - Decimal is defined by neither type
\* and raises TypeError
FloatMinusDecimalDefined == FALSE

\* lines 22-24 of render_portfolio for one holding
PositionLine(holding, data) ==
    LET current_price == LastClose(data[holding.symbol])
    IN  IF current_price.error # "none" THEN current_price
        ELSE IF ~FloatMinusDecimalDefined THEN [error |-> "TypeError"]
        ELSE [error |-> "none", symbol |-> holding.symbol,
              position_value |-> current_price.value * holding.quantity,
              unrealized_pl |-> (current_price.value - holding.average_price * 10)
                                   * holding.quantity]

\* the position lines of an error-free table
PositionLines(holdings, data) ==
    [i \in 1..Len(holdings) |-> PositionLine(holdings[i], data)]

\* the error the table loop stops with, "none" for none
FirstError(lines) ==
    IF \A i \in 1..Len(lines) : lines[i].error = "none" THEN "none"
    ELSE lines[CHOOSE i \in 1..Len(lines) :
                  /\ lines[i].error # "none"
                  /\ \A j \in 1..(i - 1) : lines[j].error = "none"].error

\* render_portfolio(user_id); data is what get_stock_data returns per symbol
RenderPortfolio(user_id, data) ==
    /\ calls' = calls + 1
    /\ LET holdings == HoldingsOf(portfolio, user_id)
           total_value == PortfolioValue(holdings, data)
           lines == PositionLines(holdings, data)
       IN  last' = [op |-> "render_portfolio", user_id |-> user_id, data |-> data,
                    holdings |-> holdings, before |-> Store, at |-> calls',
                    answer |->
                        IF holdings = <<>>
                        THEN [status |-> "empty", total_value |-> 0, lines |-> <<>>]
                        ELSE IF total_value.error # "none"
                        THEN [status |-> total_value.error, total_value |-> 0,
                              lines |-> <<>>]
                        ELSE IF FirstError(lines) # "none"
                        THEN [status |-> FirstError(lines),
                              total_value |-> total_value.value, lines |-> <<>>]
                        ELSE [status |-> "shown", total_value |-> total_value.value,
                              lines |-> lines]]
    /\ UNCHANGED <<balance, portfolio, transactions, pc, req, loc, result, pre, wrote,
                   sent, watchlist, users, cache, dbpool>>

\* render_trading up to the order form: get_stock_info, then the price line 61
RenderTrading(symbol, info, data) ==
    /\ calls' = calls + 1
    /\ last' = [op |-> "render_trading", symbol |-> symbol, info |-> info,
                data |-> data, before |-> Store, at |-> calls',
                answer |-> IF NoQuote(info) THEN [status |-> "NoInfo"]
                           ELSE IF LastClose(data).error # "none"
                           THEN [status |-> LastClose(data).error]
                           ELSE [status |-> "form", current_price |-> LastClose(data).value]]
    /\ UNCHANGED <<balance, portfolio, transactions, pc, req, loc, result, pre, wrote,
                   sent, watchlist, users, cache, dbpool>>

----------------------------------------------------------------------------
(* Specifications *)

MayCall == AllIdle /\ calls < MaxCalls

\* calls through the order form and the HTTP route, one at a time
NextSerial ==
    \E p \in Procs :
        \/ MayCall /\ \E r \in Requests : SubmitOrder(p, r)
        \/ MayCall /\ \E r \in Requests, info \in BOOLEAN : APITrade(p, r, info)
        \/ FormSteps(p)
        \/ LedgerSteps(p)

SpecSerial == Init /\ [][NextSerial]_vars

\* update_position called on its own, one call at a time
NextLedger ==
    \E p \in Procs :
        \/ MayCall /\ \E r \in Requests : ApplyTransaction(p, r)
        \/ LedgerSteps(p)

SpecLedger == Init /\ [][NextLedger]_vars

\* order-form calls one at a time, any of which may fail at any statement
NextFail ==
    \E p \in Procs :
        \/ MayCall /\ \E r \in Requests : SubmitOrder(p, r)
        \/ FormSteps(p)
        \/ LedgerSteps(p)
        \/ Fail(p)

SpecFail == Init /\ [][NextFail]_vars

\* order-form calls of two sessions running at once
NextConc ==
    \E p \in Procs :
        \/ calls < MaxConcCalls /\ \E r \in ConcRequests : SubmitOrder(p, r)
        \/ FormSteps(p)
        \/ LedgerSteps(p)

SpecConc == Init /\ [][NextConc]_vars

\* two sessions running at once, through the order form or update_position alone
Next ==
    \E p \in Procs :
        \/ calls < MaxConcCalls /\ \E r \in ConcRequests : SubmitOrder(p, r)
        \/ calls < MaxConcCalls /\ \E r \in ConcRequests : ApplyTransaction(p, r)
        \/ FormSteps(p)
        \/ LedgerSteps(p)

Spec == Init /\ [][Next]_vars

\* the trades of the worked scenario: prices 50.00, 60.00, 70.00 and 80.00
Scenario ==
    << [user_id |-> "u1", symbol |-> "XYZ", quantity |-> 10, price |-> 50000,
        transaction_type |-> "BUY"],
       [user_id |-> "u1", symbol |-> "XYZ", quantity |-> 10, price |-> 60000,
        transaction_type |-> "BUY"],
       [user_id |-> "u1", symbol |-> "XYZ", quantity |-> 15, price |-> 70000,
        transaction_type |-> "SELL"],
       [user_id |-> "u1", symbol |-> "XYZ", quantity |-> 5, price |-> 80000,
        transaction_type |-> "SELL"] >>

\* order-form calls one at a time, each one of the scenario's trades, in any order
NextScenario ==
    \E p \in Procs :
        \/ AllIdle /\ calls < Len(Scenario)
              /\ \E i \in 1..Len(Scenario) : SubmitOrder(p, Scenario[i])
        \/ FormSteps(p)
        \/ LedgerSteps(p)

SpecScenario == Init /\ [][NextScenario]_vars

\* get_composite_sentiment calls one after the other, the providers answering
\* in every way
NextSentiment ==
    \/ GetCompositeSentiment
    \/ \E raises \in BOOLEAN, news_count \in 0..MaxNews : GetNews(raises, news_count)
    \/ \E outcome \in ArticleOutcomes : AnalyzeArticle(outcome)
    \/ NewsReturn
    \/ \E outcome \in AnalystOutcomes : GetAnalystRatings(outcome)
    \/ \E outcome \in FearOutcomes : GetMarketFearIndex(outcome)
    \/ Composite
    \/ SentimentReturn

SpecSentiment == Init /\ [][NextSentiment]_vars

\* adds and removes on the watchlists of both users, in any order
NextWatchlist ==
    \/ \E u \in Users, typed \in TypedSymbols, info \in BOOLEAN :
          AddToWatchlist(u, typed, info)
    \/ \E u \in Users, typed \in TypedSymbols : RemoveFromWatchlist(u, typed)

SpecWatchlist == Init /\ [][NextWatchlist]_vars

\* registrations and logins in any order
NextAuth ==
    \/ \E username \in Usernames, password \in Passwords : Register(username, password)
    \/ \E username \in Usernames, password \in Passwords : Login(username, password)

SpecAuth == Init /\ [][NextAuth]_vars

\* order-form trades of both users one at a time, and between them the
\* portfolio page and the trading page
NextPortfolio ==
    \/ \E p \in Procs :
          \/ MayCall /\ \E r \in FrameRequests : SubmitOrder(p, r)
          \/ FormSteps(p)
          \/ LedgerSteps(p)
    \/ MayCall /\ \E u \in Users, data \in [Symbols -> DataOutcomes] :
                     RenderPortfolio(u, data)
    \/ MayCall /\ \E sym \in Symbols, info \in BOOLEAN, data \in DataOutcomes :
                     RenderTrading(sym, info, data)

SpecPortfolio == Init /\ [][NextPortfolio]_vars

\* both users trade one at a time in both symbols, and put a symbol on their
\* watchlists at any moment, also while a trade is under way
NextFrame ==
    \/ \E u \in Users : AddToWatchlist(u, "XYZ", TRUE)
    \/ \E p \in Procs :
          \/ MayCall /\ \E r \in FrameRequests : SubmitOrder(p, r)
          \/ FormSteps(p)
          \/ LedgerSteps(p)

SpecFrame == Init /\ [][NextFrame]_vars

----------------------------------------------------------------------------
(* Properties *)

Ended(p) == pc[p] = "done"

\* the rows of (user_id, symbol) in a portfolio table
PositionRows(rows, user_id, symbol) ==
    {rows[i] : i \in Matching(rows, user_id, symbol)}

\* no row of (user_id, symbol), or every one of them holds fewer than quantity
HoldsFewerThan(rows, user_id, symbol, quantity) ==
    \A row \in PositionRows(rows, user_id, symbol) : row.quantity < quantity

\* a call made through the order form or the HTTP route with a quote at hand
IsTrade(p) == loc[p].caller \in {"form", "api"} /\ loc[p].info

\* C1: a call that fails between its first and its last store write leaves the
\* store with both the balance change and the position change, or with neither
C1_AllOrNothing ==
    \A p \in Procs :
        (Ended(p) /\ result[p] = "PersistenceFailure")
            => ((balance # pre[p].balance) <=> (portfolio # pre[p].portfolio))

\* C2: a BUY whose total cost exceeds the balance ends with InsufficientFunds
\* and leaves balance, positions and transaction log as they were
C2_InsufficientFundsRejected ==
    \A p \in Procs :
        (/\ Ended(p)
         /\ IsTrade(p)
         /\ req[p].transaction_type = "BUY"
         /\ TotalCost(req[p].price, req[p].quantity) > pre[p].balance[req[p].user_id] * 10)
            => (result[p] = "InsufficientFunds" /\ Store = pre[p])

\* C3: a SELL with no position in the symbol, or with fewer shares held than
\* asked for, ends with InsufficientShares and leaves balance, positions and
\* transaction log as they were
C3_InsufficientSharesRejected ==
    \A p \in Procs :
        (/\ Ended(p)
         /\ IsTrade(p)
         /\ req[p].transaction_type = "SELL"
         /\ HoldsFewerThan(pre[p].portfolio, req[p].user_id, req[p].symbol,
                           req[p].quantity))
            => (result[p] = "InsufficientShares" /\ Store = pre[p])

\* C4: update_position called on its own with SELL, with no position or with
\* more shares asked for than held, ends with InsufficientShares and appends no
\* transaction and changes or deletes no position
C4_DirectSellRejected ==
    \A p \in Procs :
        (/\ Ended(p)
         /\ loc[p].caller = "direct"
         /\ req[p].transaction_type = "SELL"
         /\ HoldsFewerThan(pre[p].portfolio, req[p].user_id, req[p].symbol,
                           req[p].quantity))
            => (result[p] = "InsufficientShares" /\ Store = pre[p])

\* through the order form alone both rejections are as C2 and C3 state them
FormRejectionsLeaveStore ==
    \A p \in Procs :
        (/\ Ended(p)
         /\ loc[p].caller = "form"
         /\ \/ /\ req[p].transaction_type = "BUY"
               /\ TotalCost(req[p].price, req[p].quantity)
                      > pre[p].balance[req[p].user_id] * 10
            \/ /\ req[p].transaction_type = "SELL"
               /\ HoldsFewerThan(pre[p].portfolio, req[p].user_id, req[p].symbol,
                                 req[p].quantity))
            => (/\ result[p] = IF req[p].transaction_type = "BUY"
                               THEN "InsufficientFunds" ELSE "InsufficientShares"
                /\ Store = pre[p])

\* a call through the order form that runs alone and does not fail leaves the
\* store SerialTrade computes
FormCallIsSerialTrade ==
    \A p \in Procs :
        (Ended(p) /\ loc[p].caller = "form" /\ result[p] # "PersistenceFailure")
            => Store = SerialTrade(pre[p], req[p])

Quiet == \A p \in Procs : pc[p] \in {"idle", "done"}

RECURSIVE SumQty(_)
SumQty(log) ==
    IF log = <<>> THEN 0 ELSE Head(log).quantity + SumQty(Tail(log))

\* sum of quantity * price over a log, in cents
RECURSIVE Paid(_)
Paid(log) ==
    IF log = <<>> THEN 0 ELSE Head(log).quantity * Head(log).price + Paid(Tail(log))

\* a log of BUYs alone, each at a quote of whole cents, which the log holds exactly
BuysAtWholeCents(log) ==
    \A i \in 1..Len(log) :
        /\ log[i].transaction_type = "BUY"
        /\ \E price \in Prices : price % 10 = 0 /\ log[i].price * 10 = price

\* C5: after BUYs alone on an absent position, the stored quantity is the sum of
\* the bought quantities and the stored average cost is the volume-weighted mean
\* of the buy prices: average * quantity is the amount paid, to within half a
\* cent a share
C5_BuysKeepVolumeWeightedMean ==
    (Quiet /\ transactions # <<>> /\ BuysAtWholeCents(transactions))
        => /\ Len(portfolio) = 1
           /\ portfolio[1].quantity = SumQty(transactions)
           /\ 2 * Abs(portfolio[1].average_price * portfolio[1].quantity
                      - Paid(transactions)) <= portfolio[1].quantity

\* the quantity half of C5 alone
BuysAddQuantity ==
    (Quiet /\ transactions # <<>> /\ BuysAtWholeCents(transactions))
        => Len(portfolio) = 1 /\ portfolio[1].quantity = SumQty(transactions)

\* a SELL of fewer shares than the one position row of the symbol holds has ended
SoldPartOf(p) ==
    /\ Ended(p)
    /\ req[p].transaction_type = "SELL"
    /\ Cardinality(Matching(pre[p].portfolio, req[p].user_id, req[p].symbol)) = 1
    /\ \A row \in PositionRows(pre[p].portfolio, req[p].user_id, req[p].symbol) :
          row.quantity > req[p].quantity

\* C6: a SELL that leaves a positive quantity leaves the average cost as it was,
\* whatever the sell price, and takes the sold shares off the quantity
C6_SellKeepsAverageCost ==
    \A p \in Procs :
        SoldPartOf(p)
            => /\ Len(portfolio) = Len(pre[p].portfolio)
               /\ \A i \in Matching(pre[p].portfolio, req[p].user_id, req[p].symbol) :
                     portfolio[i] = [pre[p].portfolio[i] EXCEPT
                                        !.quantity = @ - req[p].quantity]

\* a SELL at a price other than the average cost has left shares behind
C6_Witness ==
    \E p \in Procs :
        /\ SoldPartOf(p)
        /\ \E row \in PositionRows(pre[p].portfolio, req[p].user_id, req[p].symbol) :
              row.average_price # RoundCents(req[p].price)

\* C7: every row of table portfolio has quantity > 0
C7_PositionsArePositive ==
    \A i \in 1..Len(portfolio) : portfolio[i].quantity > 0

\* a SELL of exactly the shares held has ended and the symbol has no row left
C7_Witness ==
    \E p \in Procs :
        /\ Ended(p)
        /\ req[p].transaction_type = "SELL"
        /\ loc[p].existing # None
        /\ loc[p].existing.quantity = req[p].quantity
        /\ Matching(portfolio, req[p].user_id, req[p].symbol) = {}

\* C8: no user's balance is negative
C8_BalanceNonNegative ==
    \A u \in Users : balance[u] >= 0

\* a BUY was turned down for lack of funds after another BUY was paid for
C8_Witness ==
    \E p \in Procs :
        /\ Ended(p)
        /\ result[p] = "InsufficientFunds"
        /\ balance[req[p].user_id] < DefaultBalance

\* the log after the first k trades of the scenario
ScenarioLog(k) == [i \in 1..k |-> TransactionRow(Scenario[i])]

\* balance (cents) and position after the first k trades, as the scenario states them
ScenarioBalance == <<9950000, 9890000, 9995000, 10035000>>

ScenarioPosition ==
    << <<[user_id |-> "u1", symbol |-> "XYZ", quantity |-> 10, average_price |-> 5000]>>,
       <<[user_id |-> "u1", symbol |-> "XYZ", quantity |-> 20, average_price |-> 5500]>>,
       <<[user_id |-> "u1", symbol |-> "XYZ", quantity |-> 5, average_price |-> 5500]>>,
       <<>> >>

\* C9: from balance 100000.00 and no position, BUY 10 at 50.00, BUY 10 at 60.00,
\* SELL 15 at 70.00, SELL 5 at 80.00 give after each trade balance 99500.00 and
\* position (10, 50.00), 98900.00 and (20, 55.00), 99950.00 and (5, 55.00),
\* 100350.00 and no position
C9_Scenario ==
    \A k \in 1..Len(Scenario) :
        (Quiet /\ transactions = ScenarioLog(k))
            => /\ balance["u1"] = ScenarioBalance[k]
               /\ portfolio = ScenarioPosition[k]

\* the four trades have been applied in the scenario's order
C9_Witness ==
    Quiet /\ transactions = ScenarioLog(Len(Scenario))

\* C10: two calls of one user that started from the same store leave, once both
\* have ended, the store that running them one after the other leaves, in one
\* of the two orders
C10_TradesSerializable ==
    (/\ Ended("p1") /\ Ended("p2")
     /\ pre["p1"] = pre["p2"]
     /\ \A u \in Users, sym \in Symbols :
           Cardinality(Matching(pre["p1"].portfolio, u, sym)) <= 1)
        => \/ Store = SerialTrade(SerialTrade(pre["p1"], req["p1"]), req["p2"])
           \/ Store = SerialTrade(SerialTrade(pre["p1"], req["p2"]), req["p1"])

----------------------------------------------------------------------------
(* The HTTP route and the log *)

\* the request of a call is one the checks of the route let through: a quote at
\* hand and, for a BUY, a total cost within the balance, for a SELL, a position
\* of at least the shares asked for
PassesValidation(p) ==
    /\ loc[p].info
    /\ IF req[p].transaction_type = "BUY"
       THEN TotalCost(req[p].price, req[p].quantity)
                <= pre[p].balance[req[p].user_id] * 10
       ELSE ~HoldsFewerThan(pre[p].portfolio, req[p].user_id, req[p].symbol,
                            req[p].quantity)

\* C11: a POST /api/trade request that passes validation is answered with the
\* confirmation, and balance, position and log are those of the trade applied
C11_ValidTradeConfirmed ==
    \A p \in Procs :
        (Ended(p) /\ loc[p].caller = "api" /\ PassesValidation(p))
            => (result[p] = "ok" /\ Store = SerialTrade(pre[p], req[p]))

\* C12: a trade call for which get_stock_info gave no quote ends with
\* InvalidSymbol, having made no query, read or write, on balance, positions or
\* transactions
C12_NoQuoteIsInvalidSymbol ==
    \A p \in Procs :
        (Ended(p) /\ loc[p].caller \in {"form", "api"} /\ ~loc[p].info)
            => /\ result[p] = "InvalidSymbol"
               /\ Store = pre[p]
               /\ wrote[p] = {}
               /\ loc[p].queries = 0

\* a call without a quote has ended on a store that holds an earlier trade
C12_Witness ==
    \E p \in Procs :
        /\ Ended(p)
        /\ loc[p].caller = "api"
        /\ ~loc[p].info
        /\ result[p] = "InvalidSymbol"
        /\ transactions # <<>>

\* BUY quantity minus SELL quantity of (user_id, symbol) in a log
RECURSIVE NetQty(_, _, _)
NetQty(log, user_id, symbol) ==
    IF log = <<>> THEN 0
    ELSE LET h == Head(log)
             rest == NetQty(Tail(log), user_id, symbol)
         IN  IF h.user_id = user_id /\ h.symbol = symbol
             THEN IF h.transaction_type = "BUY" THEN rest + h.quantity
                  ELSE rest - h.quantity
             ELSE rest

\* the quantities table portfolio holds for (user_id, symbol); 0 for no row
StoredQty(rows, user_id, symbol) ==
    IF Matching(rows, user_id, symbol) = {} THEN {0}
    ELSE {row.quantity : row \in PositionRows(rows, user_id, symbol)}

IsPrefix(s, t) == Len(s) <= Len(t) /\ \A i \in 1..Len(s) : s[i] = t[i]

\* no step changes or removes a row of the log, and a step appends at most one
LogAppendOnly ==
    [][IsPrefix(transactions, transactions')
       /\ Len(transactions') <= Len(transactions) + 1]_vars

\* C13: between calls, the stored quantity of every (user, symbol) is the BUY
\* quantity minus the SELL quantity of the pair in the log, no row counting as 0
C13_LedgerMatchesLog ==
    Quiet => \A u \in Users, sym \in Symbols :
                StoredQty(portfolio, u, sym) = {NetQty(transactions, u, sym)}

\* C14: table portfolio holds at most one row for any (user_id, symbol)
C14_OneRowPerPosition ==
    \A u \in Users, sym \in Symbols : Cardinality(Matching(portfolio, u, sym)) <= 1

----------------------------------------------------------------------------
(* Sentiment readings *)

\* get_composite_sentiment has returned its dict
Returned == sent.pc = "done"

\* a score lies in [-1, 1]
InUnit(x) == -x[2] <= x[1] /\ x[1] <= x[2]

\* C15: the composite of a reading is 0.3 * news + 0.4 * analyst + 0.3 * fear,
\* which is 0 when the three scores are 0 and 0.4 for scores 1.0, 1.0 and -1.0
C15_CompositeIsWeightedSum ==
    Returned =>
        LET c == sent.result.composite
            n == sent.result.news
            a == sent.result.analyst
            f == sent.result.fear
        IN  /\ 10 * c[1] * n[2] * a[2] * f[2]
                 = c[2] * (3 * n[1] * a[2] * f[2] + 4 * a[1] * n[2] * f[2]
                           + 3 * f[1] * n[2] * a[2])
            /\ (n = Zero /\ a = Zero /\ f = Zero) => c = Zero
            /\ (n = One /\ a = One /\ f = FracNeg(One)) => c = Frac(2, 5)

\* a reading with news 1.0, analyst 1.0 and fear -1.0 has been returned
C15_Witness ==
    /\ Returned
    /\ sent.result.news = One
    /\ sent.result.analyst = One
    /\ sent.result.fear = FracNeg(One)

ReadingKeys ==
    {"composite", "news", "analyst", "fear", "vix", "vix_change", "analyst_data",
     "news_confidence"}

\* C16: whichever providers raise, get_composite_sentiment runs to its return,
\* the dict has all its keys, a source that raised has score 0 (news with
\* confidence 0, analyst with no data, fear with vix and change 0) and a source
\* that answered has the score of its answer
C16_FailuresAreDegraded ==
    /\ sent.failed \subseteq Sources
    /\ sent.pc \in {"idle", "news", "articles", "analyst", "fear", "composite", "done"}
    /\ Returned =>
          /\ DOMAIN sent.result = ReadingKeys
          /\ "news" \in sent.failed
                => sent.result.news = Zero /\ sent.result.news_confidence = Zero
          /\ "analyst" \in sent.failed
                => sent.result.analyst = Zero /\ sent.result.analyst_data = None
          /\ "fear" \in sent.failed
                => /\ sent.result.fear = Zero
                   /\ sent.result.vix = 0
                   /\ sent.result.vix_change = Zero
          /\ (sent.analyst_outcome \in Snapshots /\ Total(sent.analyst_outcome) > 0)
                => /\ sent.result.analyst_data = sent.analyst_outcome
                   /\ sent.result.analyst = AnalystScore(sent.analyst_outcome)
          /\ sent.fear_outcome \in VixSeries
                => /\ sent.result.vix = sent.fear_outcome.last
                   /\ sent.result.fear = FearScore(sent.fear_outcome.last)
          /\ sent.result.news_confidence # Zero => "news" \notin sent.failed

\* the analyst provider alone raised and the reading has the scores of the news
\* and of the volatility index
C16_Witness ==
    /\ Returned
    /\ sent.failed = {"analyst"}
    /\ sent.result.news # Zero
    /\ sent.result.fear # Zero

\* every subset of the sources may be the one that raises
AllSourcesFailed == Returned /\ sent.failed = Sources

\* C17: the news, analyst and fear scores and the composite of a reading lie in
\* [-1, 1]
C17_ScoresBounded ==
    /\ InUnit(sent.news_sentiment)
    /\ InUnit(sent.analyst_sentiment)
    /\ InUnit(sent.fear_sentiment)
    /\ Returned => /\ InUnit(sent.result.news)
                   /\ InUnit(sent.result.analyst)
                   /\ InUnit(sent.result.fear)
                   /\ InUnit(sent.result.composite)

\* a reading with composite -1.0 has been returned
C17_Witness ==
    Returned /\ sent.result.composite = FracNeg(One)

\* get_analyst_ratings has returned
AnalystReturned == sent.pc \in {"fear", "composite", "done"}

\* C18: for a snapshot with a positive total the analyst score is (strongBuy +
\* 0.5 * buy - 0.5 * sell - strongSell) / total, lies in [-1, 1] and comes with
\* the snapshot; for a total of 0, no snapshot or a failure it is 0 with no data
C18_AnalystScore ==
    AnalystReturned =>
        LET o == sent.analyst_outcome
            x == sent.analyst_sentiment
        IN  IF o \in Snapshots /\ Total(o) > 0
            THEN /\ sent.analyst_data = o
                 /\ 2 * x[1] * (o.strongBuy + o.buy + o.hold + o.sell + o.strongSell)
                      = x[2] * (2 * o.strongBuy + o.buy - o.sell - 2 * o.strongSell)
                 /\ InUnit(x)
            ELSE x = Zero /\ sent.analyst_data = None

\* a snapshot of one buy and one hold has been scored 0.25
C18_Witness ==
    /\ AnalystReturned
    /\ sent.analyst_outcome
          = [strongBuy |-> 0, buy |-> 1, hold |-> 1, sell |-> 0, strongSell |-> 0]
    /\ sent.analyst_sentiment = Frac(1, 4)

\* a snapshot of zeros has been answered with no data
AnalystZeroTotal ==
    /\ AnalystReturned
    /\ sent.analyst_outcome \in Snapshots
    /\ Total(sent.analyst_outcome) = 0

\* get_market_fear_index has returned
FearReturned == sent.pc \in {"composite", "done"}

\* C19: the fear score is -clamp((latest - 15) / 35, -1, 1): it lies in [-1, 1],
\* is 0 at 15 and -1 from 50 on, and is no higher for a higher latest value; an
\* empty series or a failure gives score, level and change 0
C19_FearScore ==
    FearReturned =>
        LET o == sent.fear_outcome
            x == sent.fear_sentiment
        IN  IF o \in VixSeries
            THEN /\ IF o.last >= 50 THEN x = FracNeg(One)
                    ELSE IF o.last <= -20 THEN x = One
                    ELSE 35 * x[1] = x[2] * (15 - o.last)
                 /\ InUnit(x)
                 /\ o.last = 15 => x = Zero
                 /\ \A v \in VixSeries :
                       v.last <= o.last => FracLe(x, FearScore(v.last))
                 /\ sent.vix_value = o.last
            ELSE x = Zero /\ sent.vix_value = 0 /\ sent.vix_change = Zero

\* a latest value of 60 has been scored -1.0
C19_Witness ==
    /\ FearReturned
    /\ sent.fear_outcome \in VixSeries
    /\ sent.fear_outcome.last = 60
    /\ sent.fear_sentiment = FracNeg(One)

\* get_news_sentiment has returned and get_analyst_ratings has not been called
NewsReturned == sent.pc = "analyst"

\* C20: get_news_sentiment reads the first 10 articles at most and all of them
\* whether or not some cannot be fetched or scored; it returns the mean of the
\* polarities scored with confidence = number scored / 10, in [0, 1], and (0, 0)
\* when nothing was fetched or scored
C20_NewsSentiment ==
    NewsReturned =>
        LET scored == BagCardinality(sent.sentiments)
        IN  /\ sent.i <= 10
            /\ sent.i = IF sent.news_count < 10 THEN sent.news_count ELSE 10
            /\ scored <= sent.i
            /\ sent.news_confidence = Frac(scored, 10)
            /\ FracLe(Zero, sent.news_confidence) /\ FracLe(sent.news_confidence, One)
            /\ scored > 0
                  => FracMul(sent.news_sentiment, Frac(scored, 1))
                         = BagSum(sent.sentiments)
            /\ scored = 0 => sent.news_sentiment = Zero /\ sent.news_confidence = Zero

\* of 11 articles 10 were read, 7 of them scored and 3 skipped
C20_Witness ==
    /\ NewsReturned
    /\ sent.news_count = 11
    /\ sent.i = 10
    /\ BagCardinality(sent.sentiments) = 7
    /\ sent.news_confidence = Frac(7, 10)

----------------------------------------------------------------------------
(* Watchlist *)

\* C21: no (user, symbol) is on the watchlist twice; an add of a symbol that is
\* on the user's watchlist is answered without error and leaves the table as it
\* was, and so does a remove of a symbol that is not on it
C21_WatchlistIdempotent ==
    /\ \A i, j \in 1..Len(watchlist) : watchlist[i] = watchlist[j] => i = j
    /\ (/\ last.op = "add_to_watchlist"
        /\ last.info
        /\ OnWatchlist(last.before, last.user_id, last.symbol))
          => last.answer = "added" /\ watchlist = last.before
    /\ (/\ last.op = "remove_from_watchlist"
        /\ ~OnWatchlist(last.before, last.user_id, last.symbol))
          => last.answer = "removed" /\ watchlist = last.before

\* a symbol was added to a watchlist that held it and another symbol
C21_Witness ==
    /\ last.op = "add_to_watchlist"
    /\ last.info
    /\ OnWatchlist(last.before, last.user_id, last.symbol)
    /\ Len(watchlist) >= 2

\* a symbol was removed from a watchlist that did not hold it
RemovedAbsent ==
    /\ last.op = "remove_from_watchlist"
    /\ ~OnWatchlist(last.before, last.user_id, last.symbol)
    /\ Len(watchlist) >= 1

----------------------------------------------------------------------------
(* Registration and login *)

\* C22: a registration is answered success exactly when the username was free,
\* and then one user of that name has been stored; it is answered UsernameTaken
\* when the name was taken, and then the users are as they were; no two users
\* have one username
C22_RegisterReportsSuccess ==
    /\ \A i, j \in 1..Len(users.rows) :
          users.rows[i].username = users.rows[j].username => i = j
    /\ last.op = "register" =>
          IF ByUsername(last.before.rows, last.username) = {}
          THEN /\ last.answer.status = "success"
               /\ Len(users.rows) = Len(last.before.rows) + 1
               /\ Cardinality(ByUsername(users.rows, last.username)) = 1
          ELSE /\ last.answer.status = "UsernameTaken"
               /\ users.rows = last.before.rows

\* usernames stay unique and a taken name is turned down with the users unchanged
RegisterKeepsUsernamesUnique ==
    /\ \A i, j \in 1..Len(users.rows) :
          users.rows[i].username = users.rows[j].username => i = j
    /\ (last.op = "register" /\ ByUsername(last.before.rows, last.username) # {})
          => last.answer.status = "UsernameTaken" /\ users.rows = last.before.rows

\* C23: a login is answered with id, username and balance of a user exactly when
\* the username is that user's and the password the one the user registered
\* with, with InvalidCredentials otherwise, and it leaves the users as they were
C23_LoginChecksCredentials ==
    last.op = "login" =>
        /\ users = last.before
        /\ \A i \in 1..Len(users.rows) :
              (last.answer.status = "ok" /\ last.answer.id = users.rows[i].id)
                 <=> (/\ users.rows[i].username = last.username
                      /\ users.rows[i].password_hash = Sha256(last.password))
        /\ last.answer.status = "ok"
              => \E i \in 1..Len(users.rows) :
                    /\ last.answer.id = users.rows[i].id
                    /\ last.answer.username = users.rows[i].username
                    /\ last.answer.balance = users.rows[i].balance
        /\ last.answer.status \in {"ok", "InvalidCredentials"}

\* with two users registered, one of them has logged in
C23_Witness ==
    /\ last.op = "login"
    /\ last.answer.status = "ok"
    /\ Len(users.rows) = 2

\* a registered username with another password was turned down
LoginWrongPassword ==
    /\ last.op = "login"
    /\ last.answer.status = "InvalidCredentials"
    /\ ByUsername(users.rows, last.username) # {}

----------------------------------------------------------------------------
(* Valuation and missing market data *)

\* every symbol held has a frame with a last Close
AllPriced(holdings, data) ==
    \A i \in 1..Len(holdings) : data[holdings[i].symbol] \in Frames

\* sum of last Close * quantity over the holdings, in mills
RECURSIVE SumOfValues(_, _)
SumOfValues(holdings, data) ==
    IF holdings = <<>> THEN 0
    ELSE data[Head(holdings).symbol].close * Head(holdings).quantity
            + SumOfValues(Tail(holdings), data)

\* C24: the portfolio page of a user whose held symbols all have a price shows,
\* for every holding, value = price * quantity and unrealized P/L = (price -
\* average cost) * quantity, and as total the sum of the values (nothing for no
\* holdings), and leaves the store as it was
C24_ValuationComputed ==
    (/\ last.op = "render_portfolio"
     /\ AllPriced(last.holdings, last.data))
        => /\ last.answer.status = IF last.holdings = <<>> THEN "empty" ELSE "shown"
           /\ last.answer.total_value = SumOfValues(last.holdings, last.data)
           /\ Len(last.answer.lines) = Len(last.holdings)
           /\ \A i \in 1..Len(last.holdings) :
                 LET h == last.holdings[i]
                     current_price == last.data[h.symbol].close
                     line == last.answer.lines[i]
                 IN  /\ line.position_value = current_price * h.quantity
                     /\ line.unrealized_pl
                           = (current_price - h.average_price * 10) * h.quantity
           /\ last.at = calls => Store = last.before

\* the total of the page is the sum of the values, and the page writes nothing
PortfolioTotalIsSum ==
    (/\ last.op = "render_portfolio"
     /\ AllPriced(last.holdings, last.data))
        => /\ last.answer.total_value = SumOfValues(last.holdings, last.data)
           /\ last.at = calls => Store = last.before

\* C25: the portfolio page and the trading page, given no data or an empty
\* history for a symbol, end in an outcome of their own and not in an error
\* nobody handles
C25_MissingDataHandled ==
    (\/ /\ last.op = "render_portfolio"
        /\ ~AllPriced(last.holdings, last.data)
     \/ /\ last.op = "render_trading"
        /\ last.data \notin Frames)
        => last.answer.status \notin {"AttributeError", "IndexError"}

----------------------------------------------------------------------------
(* Cash *)

\* BUY cost minus SELL proceeds of a user over a log, price * quantity in cents
RECURSIVE NetSpent(_, _)
NetSpent(log, user_id) ==
    IF log = <<>> THEN 0
    ELSE LET h == Head(log)
             rest == NetSpent(Tail(log), user_id)
         IN  IF h.user_id # user_id THEN rest
             ELSE IF h.transaction_type = "BUY" THEN rest + h.price * h.quantity
             ELSE rest - h.price * h.quantity

\* C27: between calls run one at a time, each user's balance is 100000.00 minus
\* price * quantity over the user's BUY records plus price * quantity over the
\* user's SELL records of the log
C27_CashConserved ==
    Quiet => \A u \in Users : balance[u] = DefaultBalance - NetSpent(transactions, u)

----------------------------------------------------------------------------
(* Frame of a trade *)

\* the rows of a table that are not rows of (user_id, symbol), in table order
RowsNotOf(rows, user_id, symbol) ==
    LET Other(row) == ~(row.user_id = user_id /\ row.symbol = symbol)
    IN  SelectSeq(rows, Other)

\* the rows of a table that belong to other users, in table order
RowsOfOthers(rows, user_id) ==
    LET Other(row) == row.user_id # user_id
    IN  SelectSeq(rows, Other)

\* what an ended order-form trade of user u in symbol s has left as it was
\* in the three tables it writes
OthersUntouched ==
    \A p \in Procs :
        (Ended(p) /\ loc[p].caller = "form")
            => LET u == req[p].user_id
                   sym == req[p].symbol
               IN  /\ \A v \in Users \ {u} : balance[v] = pre[p].balance[v]
                   /\ RowsNotOf(portfolio, u, sym) = RowsNotOf(pre[p].portfolio, u, sym)
                   /\ RowsOfOthers(transactions, u)
                         = RowsOfOthers(pre[p].transactions, u)
                   /\ IsPrefix(pre[p].transactions, transactions)

\* a step of a trade, from the submission of the order to its answer
TradeStep == pc' # pc

\* C28: an order-form trade of user u in symbol s that has ended has left as
\* they were the balance of every other user, the position rows of every other
\* user and of u in every other symbol and the transaction records of every
\* other user, and no step of a trade changes a watchlist
C28_TradeFrame ==
    /\ []OthersUntouched
    /\ [][TradeStep => watchlist' = watchlist]_vars

\* a trade of one user has been applied while the other user has a position, a
\* transaction record, a changed balance and a watchlist entry
C28_Witness ==
    \E p \in Procs :
        /\ Ended(p)
        /\ loc[p].caller = "form"
        /\ result[p] = "ok"
        /\ RowsOfOthers(portfolio, req[p].user_id) # <<>>
        /\ RowsOfOthers(transactions, req[p].user_id) # <<>>
        /\ \E v \in Users \ {req[p].user_id} : balance[v] # DefaultBalance
        /\ \E i \in 1..Len(watchlist) : watchlist[i].user_id # req[p].user_id

----------------------------------------------------------------------------
(* format_number: the definition of utils.py (lines 32-44) and the one of   *)
(* the package utils/__init__.py (lines 32-41), which is the one that       *)
(* `from utils import format_number` of components/portfolio.py binds.      *)
(* A number is a kind, a sign, whole dollars and cents, or NaN; a formatted *)
(* string is the sequence of its characters.                                *)

Kinds == {"float", "numpy", "Decimal"}

Wholes == {0, 5, 55, 999, 1000, 1234, 999999, 1000000, 1234567, 2500000,
           999999999, 1000000000, 1234567890}

CentsParts == {0, 50, 99}

NaNs == [kind : {"float", "numpy"}, nan : {TRUE}, neg : {FALSE}, whole : {0}, cents : {0}]

Numbers ==
    [kind : Kinds, nan : {FALSE}, neg : BOOLEAN, whole : Wholes, cents : CentsParts]
        \cup NaNs

Digit(d) == <<"0", "1", "2", "3", "4", "5", "6", "7", "8", "9">>[d + 1]

RECURSIVE Digits(_)
Digits(n) == IF n < 10 THEN <<Digit(n)>> ELSE Digits(n \div 10) \o <<Digit(n % 10)>>

\* the "," option of the format specification: groups of three digits
RECURSIVE Grouped(_)
Grouped(n) ==
    IF n < 1000 THEN Digits(n)
    ELSE Grouped(n \div 1000)
            \o <<",", Digit((n % 1000) \div 100), Digit((n % 100) \div 10), Digit(n % 10)>>

TwoDecimals(c) == <<".", Digit(c \div 10), Digit(c % 10)>>

Sign(number) == IF number.neg THEN <<"-">> ELSE <<>>

\* f"${number:,.2f}"
Plain(number) ==
    IF number.nan THEN <<"$", "n", "a", "n">>
    ELSE <<"$">> \o Sign(number) \o Grouped(number.whole) \o TwoDecimals(number.cents)

\* number / unit in hundredths, rounded as .2f rounds
Hundredths(number, unit) ==
    LET q == number.whole \div (unit \div 100)
        r == number.whole % (unit \div 100)
    IN  IF (r * 100 + number.cents) * 2 >= unit THEN q + 1 ELSE q

\* f"${number/1e9:.2f}B" and f"${number/1e6:.2f}M"
Scaled(number, unit, suffix) ==
    IF number.nan THEN <<"$", "n", "a", "n", suffix>>
    ELSE LET h == Hundredths(number, unit)
         IN  <<"$">> \o Sign(number) \o Digits(h \div 100) \o TwoDecimals(h % 100)
                \o <<suffix>>

Billion == 1000000000

Million == 1000000

\* number >= val: false for NaN, true for -0.0 >= 0
AtLeast(number, val) ==
    /\ ~number.nan
    /\ IF number.neg THEN val = 0 /\ number.whole = 0 /\ number.cents = 0
       ELSE number.whole >= val

\* a Decimal divided by a float raises TypeError
CanDivide(number) == number.kind # "Decimal"

Returns(text) == [raised |-> "no", text |-> text]

Raises(exception) == [raised |-> exception, text |-> <<>>]

\* except (TypeError, ValueError): return "$0.00"
Fallback == Returns(<<"$", "0", ".", "0", "0">>)

\* utils.py: if / elif / else, each string built in its own branch
format_number_utils_py(number) ==
    IF AtLeast(number, Billion)
    THEN IF CanDivide(number) THEN Returns(Scaled(number, Billion, "B")) ELSE Fallback
    ELSE IF AtLeast(number, Million)
    THEN IF CanDivide(number) THEN Returns(Scaled(number, Million, "M")) ELSE Fallback
    ELSE Returns(Plain(number))

\* utils/__init__.py: the list of the three strings is built first, then next()
\* takes the first whose threshold the number reaches; a generator that yields
\* nothing makes next() raise StopIteration, which the except clause does
\* not name
format_number_utils_init(number) ==
    IF ~CanDivide(number) THEN Fallback
    ELSE IF AtLeast(number, Billion) THEN Returns(Scaled(number, Billion, "B"))
    ELSE IF AtLeast(number, Million) THEN Returns(Scaled(number, Million, "M"))
    ELSE IF AtLeast(number, 0) THEN Returns(Plain(number))
    ELSE Raises("StopIteration")

\* the same number is formatted by both definitions
FormatNumber(number) ==
    /\ last' = [op |-> "format_number", number |-> number,
                module |-> format_number_utils_py(number),
                package |-> format_number_utils_init(number)]
    /\ UNCHANGED <<TradeVars, sent, watchlist, users, cache, dbpool>>

NextFormat == \E number \in Numbers : FormatNumber(number)

SpecFormat == Init /\ [][NextFormat]_vars

\* C30: the two definitions of format_number return the same string for every
\* number, negative ones included, and neither raises
C30_FormatNumberAgree ==
    last.op = "format_number"
        => /\ last.module.raised = "no"
           /\ last.package.raised = "no"
           /\ last.module.text = last.package.text

\* for a float or numpy number that is not negative and not NaN the two
\* definitions return the same string
FormatNumberAgreeOnFloats ==
    (/\ last.op = "format_number"
     /\ last.number.kind # "Decimal"
     /\ ~last.number.nan
     /\ ~last.number.neg)
        => /\ last.module.raised = "no"
           /\ last.module = last.package

----------------------------------------------------------------------------
(* The connection pool: Database.initialize, get_connection,                *)
(* return_connection and execute_query (database.py lines 9-74), called by  *)
(* threads that share the class attribute Database._connection_pool.        *)
(* dbpool.pool is the pool that attribute names (0 for None), dbpool.conns  *)
(* the connections ever made, each with the pool that made it.              *)

\* calls of execute_query in one run
MaxQueries == 3

Thread(t) == dbpool.threads[t]

\* what the pool and its connections are not part of
NotPool == <<TradeVars, sent, watchlist, users, last, cache>>

\* the thread t moves on with the fields given
Moved(t, thread) == [dbpool.threads EXCEPT ![t] = thread]

\* SimpleConnectionPool(minconn=1, ...): a new pool opens one connection
NewPool(conns, made) == Append(conns, [pool |-> made + 1, state |-> "idle", work |-> "none"])

\* the idle connections of the pool
IdleOf(conns, pool) ==
    {c \in 1..Len(conns) : conns[c].pool = pool /\ conns[c].state = "idle"}

\* conn = None; try: conn = cls.get_connection()
BeginQuery(t, fails) ==
    /\ Thread(t).pc = "idle"
    /\ dbpool.queries < MaxQueries
    /\ dbpool' = [dbpool EXCEPT !.queries = @ + 1,
                                !.threads = Moved(t, [pc |-> "check", conn |-> 0,
                                                      fails |-> fails,
                                                      outcome |-> "none"])]
    /\ UNCHANGED NotPool

\* get_connection, lines 38-39: if not cls._connection_pool: cls.initialize();
\* initialize makes the pool or raises, and then execute_query raises with
\* conn still None
CheckPool(t) ==
    /\ Thread(t).pc = "check"
    /\ \/ /\ dbpool.pool # 0
          /\ dbpool' = [dbpool EXCEPT !.threads = Moved(t, [Thread(t) EXCEPT !.pc = "getconn"])]
       \/ /\ dbpool.pool = 0
          /\ \/ dbpool' = [dbpool EXCEPT
                              !.pool = dbpool.made + 1,
                              !.made = @ + 1,
                              !.conns = NewPool(@, dbpool.made),
                              !.threads = Moved(t, [Thread(t) EXCEPT !.pc = "getconn"])]
             \/ dbpool' = [dbpool EXCEPT
                              !.threads = Moved(t, [Thread(t) EXCEPT !.pc = "done",
                                                                     !.outcome = "raised"])]
    /\ UNCHANGED NotPool

\* cls._connection_pool.getconn(): hands out an idle connection of the pool or
\* opens a new one, or raises (the server refuses, the pool is exhausted, the
\* attribute has become None); next is the pc after it raised
Getconn(t, next, raised) ==
    \/ /\ dbpool.pool # 0
       /\ \/ \E c \in IdleOf(dbpool.conns, dbpool.pool) :
                dbpool' = [dbpool EXCEPT
                              !.conns[c].state = "used",
                              !.threads = Moved(t, [Thread(t) EXCEPT !.pc = "execute",
                                                                     !.conn = c])]
          \/ /\ IdleOf(dbpool.conns, dbpool.pool) = {}
             /\ dbpool' = [dbpool EXCEPT
                              !.conns = Append(@, [pool |-> dbpool.pool, state |-> "used",
                                                   work |-> "none"]),
                              !.threads = Moved(t, [Thread(t) EXCEPT
                                                       !.pc = "execute",
                                                       !.conn = Len(dbpool.conns) + 1])]
    \/ dbpool' = [dbpool EXCEPT !.threads = Moved(t, [Thread(t) EXCEPT !.pc = next,
                                                                       !.outcome = raised])]

\* get_connection, lines 40-42
FirstGetconn(t) ==
    /\ Thread(t).pc = "getconn"
    /\ Getconn(t, "reset", "none")
    /\ UNCHANGED NotPool

\* line 44: cls._connection_pool = None
ResetPool(t) ==
    /\ Thread(t).pc = "reset"
    /\ dbpool' = [dbpool EXCEPT !.pool = 0,
                                !.resets = @ + 1,
                                !.threads = Moved(t, [Thread(t) EXCEPT !.pc = "reinit"])]
    /\ UNCHANGED NotPool

\* line 45: cls.initialize(), which does nothing when another thread has set
\* the attribute in between, and makes a pool or raises otherwise
Reinitialize(t) ==
    /\ Thread(t).pc = "reinit"
    /\ \/ /\ dbpool.pool # 0
          /\ dbpool' = [dbpool EXCEPT !.threads = Moved(t, [Thread(t) EXCEPT !.pc = "retry"])]
       \/ /\ dbpool.pool = 0
          /\ \/ dbpool' = [dbpool EXCEPT
                              !.pool = dbpool.made + 1,
                              !.made = @ + 1,
                              !.conns = NewPool(@, dbpool.made),
                              !.threads = Moved(t, [Thread(t) EXCEPT !.pc = "retry"])]
             \/ dbpool' = [dbpool EXCEPT
                              !.threads = Moved(t, [Thread(t) EXCEPT !.pc = "done",
                                                                     !.outcome = "raised"])]
    /\ UNCHANGED NotPool

\* line 46: the second getconn(); what it raises leaves execute_query with
\* conn still None
SecondGetconn(t) ==
    /\ Thread(t).pc = "retry"
    /\ Getconn(t, "done", "raised")
    /\ UNCHANGED NotPool

\* execute_query, lines 62-71: execute and commit, or the statement raises,
\* is rolled back and the exception raised again
Execute(t) ==
    /\ Thread(t).pc = "execute"
    /\ LET c == Thread(t).conn
       IN  dbpool' = [dbpool EXCEPT
                         !.conns[c].work = IF Thread(t).fails THEN "rolled back"
                                           ELSE "committed",
                         !.threads = Moved(t, [Thread(t) EXCEPT
                                                  !.pc = "finally",
                                                  !.outcome = IF Thread(t).fails
                                                              THEN "raised"
                                                              ELSE "returned"])]
    /\ UNCHANGED NotPool

\* putconn of a connection the pool did not hand out raises PoolError
PutconnRaises(conn, pool) == conn.pool # pool

\* return_connection, lines 50-55: with no pool nothing is done; putconn
\* gives the connection back; when putconn raises the connection is closed
ReturnedState(conn, pool) ==
    IF pool = 0 THEN conn.state
    ELSE IF PutconnRaises(conn, pool) THEN "closed"
    ELSE "idle"

\* finally: if conn: cls.return_connection(conn)
ReturnConnection(t) ==
    /\ Thread(t).pc = "finally"
    /\ LET c == Thread(t).conn
       IN  dbpool' = [dbpool EXCEPT
                         !.conns[c].state = ReturnedState(dbpool.conns[c], dbpool.pool),
                         !.threads = Moved(t, [Thread(t) EXCEPT !.pc = "done"])]
    /\ UNCHANGED NotPool

\* execute_query has returned or raised; the thread may call it again
EndQuery(t) ==
    /\ Thread(t).pc = "done"
    /\ dbpool' = [dbpool EXCEPT !.threads = Moved(t, [Thread(t) EXCEPT !.pc = "idle"])]
    /\ UNCHANGED NotPool

NextPool ==
    \E t \in Procs :
        \/ \E fails \in BOOLEAN : BeginQuery(t, fails)
        \/ CheckPool(t)
        \/ FirstGetconn(t)
        \/ ResetPool(t)
        \/ Reinitialize(t)
        \/ SecondGetconn(t)
        \/ Execute(t)
        \/ ReturnConnection(t)
        \/ EndQuery(t)

SpecPool == Init /\ [][NextPool]_vars

\* the connections that execute_query took and that a thread still inside
\* execute_query holds
HeldInside == {Thread(t).conn : t \in {u \in Procs : Thread(u).pc \in {"execute", "finally"}}}

\* C29: a connection that execute_query took from the pool is back in a pool
\* or closed once execute_query has returned or raised, and a statement that
\* failed was rolled back and its exception raised
C29_ConnectionsGivenBack ==
    /\ \A c \in 1..Len(dbpool.conns) :
          dbpool.conns[c].state = "used" => c \in HeldInside
    /\ \A t \in Procs :
          (Thread(t).pc = "done" /\ Thread(t).conn # 0 /\ Thread(t).fails)
             => /\ Thread(t).outcome = "raised"
                /\ dbpool.conns[Thread(t).conn].work = "rolled back"

\* while the pool is not reset, every connection is given back
GivenBackWithoutReset ==
    dbpool.resets = 0
       => \A c \in 1..Len(dbpool.conns) :
             dbpool.conns[c].state = "used" => c \in HeldInside

\* a connection of a pool that was replaced is closed by return_connection
ClosedAfterReset ==
    \A c \in 1..Len(dbpool.conns) : dbpool.conns[c].state # "closed"

----------------------------------------------------------------------------
(* The reads through @st.cache_data(ttl=...): get_stock_data and            *)
(* get_stock_info (utils/__init__.py lines 6-30) and the three sources of   *)
(* SentimentAnalyzer (sentiment_analyzer.py lines 14, 50, 72). cache.now is *)
(* the clock in seconds; an entry is what the provider returned, numbered   *)
(* by the call that fetched it, and the time it was stored.                 *)

\* reads of cached functions in one run
MaxReads == 3

\* seconds between one read and the next
Elapsed == {59, 60, 240, 3540}

\* a cache that keeps an entry for ever
FreshForEver(entry, ttl, now) == entry # None

\* an entry is served while the clock is before its expiry, stored + ttl
Fresh(entry, ttl, now) == entry # None /\ now < entry.stored + ttl

\* a call of the cached function after `elapsed` seconds: the stored entry
\* when it is fresh, otherwise a call of the function itself, whose value
\* replaces the entry
CachedRead(fn, symbol, elapsed) ==
    /\ cache.reads < MaxReads
    /\ LET k == CacheKey(fn, symbol)
           now == cache.now + elapsed
           entry == cache.entries[k]
           hit == Fresh(entry, Ttl(fn), now)
           fetched == [value |-> cache.fetches + 1, stored |-> now]
       IN  /\ cache' = [now |-> now,
                        reads |-> cache.reads + 1,
                        fetches |-> IF hit THEN cache.fetches ELSE cache.fetches + 1,
                        entries |-> IF hit THEN cache.entries
                                    ELSE [cache.entries EXCEPT ![k] = fetched]]
           /\ last' = [op |-> "cached_read", fn |-> fn, key |-> k, at |-> now,
                       before |-> cache.entries,
                       called |-> ~hit,
                       answer |-> IF hit THEN entry ELSE fetched]
    /\ UNCHANGED <<TradeVars, sent, watchlist, users, dbpool>>

NextCache ==
    \E fn \in CachedFunctions, symbol \in Symbols, elapsed \in Elapsed :
        CachedRead(fn, symbol, elapsed)

SpecCache == Init /\ [][NextCache]_vars

ServedFromCache ==
    /\ last.op = "cached_read"
    /\ last.before[last.key] # None
    /\ last.at - last.before[last.key].stored = Ttl(last.fn) - 1
    /\ ~last.called

====
